---- MODULE Spec2Model ----
\* Wikipedia autosuggest widget (bindWikipediaAutosuggest): debounced input,
\* switch-latest search, SuggestState, keyboard cursor and sessionStorage
\* snapshot.  Strings the program trims or measures are sequences of
\* one-character strings; opaque strings (descriptions, urls, messages) are
\* TLA+ strings.
EXTENDS Integers, Sequences, FiniteSets, TLC

VARIABLES
    phase,        \* "unbound" | "bound" | "disposed": the widget's lifecycle
    subStatus,    \* state$ subscription: "none" | "open" | "closed" | "errored"
    now,          \* Date.now() / scheduler clock, in ms
    ticks,        \* number of clock advances so far
    nInputs,      \* number of raw input events so far
    storeMode,    \* sessionStorage: "ok" | "quota" (setItem throws) | "unavailable" (all throw)
    store,        \* sessionStorage[STORAGE_KEY]
    inputValue,   \* opts.input.value
    focused,      \* the input element has focus
    activeTask,   \* debounceTime: a timer task is scheduled
    lastValue,    \* debounceTime: latest value received
    lastTime,     \* debounceTime: time of the latest value
    hasKey,       \* distinctUntilChanged: a value has been emitted
    currentKey,   \* distinctUntilChanged: the last value emitted
    requests,     \* searches issued, in order: [term, limit, sub, outcome]
    lastState,    \* the cached latest SuggestState
    activeIndex,  \* the keyboard cursor
    statusText,   \* opts.status.textContent
    listDom,      \* the rendered suggestion list and the input's aria state
    opened,       \* the url the latest event passed to window.open, if any
    nSettled,     \* history: number of terms emitted by term$
    nDropped,     \* history: number of debounced values distinctUntilChanged dropped
    bootStore,    \* history: sessionStorage[STORAGE_KEY] as the widget found it
    lastRaw,      \* history: the latest raw input event [value, at]
    previousItems, \* history: lastState.items just before the latest term settled
    nReloads      \* history: number of page reloads so far

vars == <<phase, subStatus, now, ticks, nInputs, storeMode, store,
          inputValue, focused, activeTask, lastValue, lastTime, hasKey,
          currentKey, requests, lastState, activeIndex, statusText, listDom,
          opened, nSettled, nDropped, bootStore, lastRaw, previousItems,
          nReloads>>

----------------------------------------------------------------------------
\* Bounds of the model

MaxInputs == 2
MaxTicks == 4

\* Page reloads in one run
MaxReloads == 1

\* Longest array in a provider response of the conversion check
MaxArr == 2

\* Long pauses in one run
MaxWaits == 2

----------------------------------------------------------------------------
\* Configuration defaults and constants of the program

minLength == 3
debounceMs == 500
limit == 10
PERSIST_TTL_MS == 30 * 60 * 1000

TenMinutes == 10 * 60 * 1000
StartNow == 4 * PERSIST_TTL_MS

----------------------------------------------------------------------------
\* Text

Space == " "
EmptyStr == <<>>
Ca == <<"c", "a">>
CatTerm == <<"c", "a", "t">>
DogTerm == <<"d", "o", "g">>
CatTitle == <<"C", "a", "t">>
CategoryTitle == <<"C", "a", "t", "e", "g", "o", "r", "y">>

RawInputs ==
    { EmptyStr, Ca, CatTerm, <<Space>> \o CatTerm \o <<Space>>, DogTerm }

RECURSIVE TrimStart(_)
TrimStart(s) ==
    IF s # <<>> /\ Head(s) = Space THEN TrimStart(Tail(s)) ELSE s

RECURSIVE TrimEnd(_)
TrimEnd(s) ==
    IF s # <<>> /\ s[Len(s)] = Space THEN TrimEnd(SubSeq(s, 1, Len(s) - 1)) ELSE s

trim(s) == TrimEnd(TrimStart(s))

Min2(a, b) == IF a <= b THEN a ELSE b
Max2(a, b) == IF a >= b THEN a ELSE b

----------------------------------------------------------------------------
\* Data model

Undefined == "<undefined>"

Suggestion(title, description, url) ==
    [title |-> title, description |-> description, url |-> url]

Idle(term, items) == [kind |-> "idle", term |-> term, items |-> items]
Loading(term, items) == [kind |-> "loading", term |-> term, items |-> items]
Done(term, items) == [kind |-> "done", term |-> term, items |-> items]
Failed(term, items, message) ==
    [kind |-> "error", term |-> term, items |-> items, error |-> message]

\* WikiOpenSearch tuples the provider may answer with: [echo, titles, descriptions, urls]
Responses(term) ==
    { <<term, <<CatTitle, CategoryTitle>>, <<"d1", "d2">>, <<"u1", "u2">>>>,
      <<term, <<>>, <<>>, <<>>>>,
      <<term, <<CatTitle, CategoryTitle>>, <<"d1", "d2">>, <<"">>>> }

\* Values an ajax call may fail with: an Error object or any other thrown value
Failures ==
    { [isError |-> TRUE, message |-> "ajax timeout", text |-> "Error: ajax timeout"],
      [isError |-> FALSE, message |-> Undefined, text |-> "503"] }

\* A conversion driven by the titles alone
toSuggestionsByTitles(data) ==
    LET titles == data[2]
        descriptions == data[3]
        urls == data[4]
    IN  [i \in 1..Len(titles) |->
            Suggestion(titles[i],
                       IF i <= Len(descriptions) THEN descriptions[i] ELSE Undefined,
                       IF i <= Len(urls) THEN urls[i] ELSE Undefined)]

toSuggestions(data) ==
    LET titles == data[2]
        descriptions == data[3]
        urls == data[4]
        n == Min2(Len(titles), Min2(Len(descriptions), Len(urls)))
    IN  [i \in 1..n |-> Suggestion(titles[i], descriptions[i], urls[i])]

----------------------------------------------------------------------------
\* sessionStorage[STORAGE_KEY] and the persistence codec

NoData == [tag |-> "absent"]
Garbage == [tag |-> "garbage"]      \* a string JSON.parse throws on
BadShape == [tag |-> "badshape"]    \* JSON whose term is no string or items no array
Null == [tag |-> "null"]

PersistedSuggestions(term, items, savedAt) ==
    [term |-> term, items |-> items, savedAt |-> savedAt]

JSONstringify(v) ==
    [tag |-> "json", term |-> v.term, items |-> v.items, savedAt |-> v.savedAt]

JSONparse(raw) == PersistedSuggestions(raw.term, raw.items, raw.savedAt)

\* A write that keeps the time stamp of the snapshot it replaces
savePersistedKeepsStamp(v, st, mode) ==
    IF mode # "ok" THEN st
    ELSE IF st.tag = "json"
         THEN JSONstringify(PersistedSuggestions(v.term, v.items, st.savedAt))
         ELSE JSONstringify(v)

\* setItem throws when the store is unavailable or over quota
savePersisted(v, st, mode) ==
    IF mode = "ok" THEN JSONstringify(v) ELSE st

\* loadPersisted without the retention check
loadPersistedNoTtl(st, mode, t) ==
    IF mode = "unavailable" THEN [value |-> Null, store |-> st]
    ELSE IF st.tag # "json" THEN [value |-> Null, store |-> st]
    ELSE [value |-> JSONparse(st), store |-> st]

\* loadPersisted without the shape check: ill-shaped JSON is returned as parsed
loadPersistedNoShapeCheck(st, mode, t) ==
    IF mode = "unavailable" THEN [value |-> Null, store |-> st]
    ELSE IF st.tag = "absent" THEN [value |-> Null, store |-> st]
    ELSE IF st.tag = "garbage" THEN [value |-> Null, store |-> st]
    ELSE IF st.tag = "badshape"
         THEN [value |-> PersistedSuggestions(EmptyStr, <<>>, t), store |-> st]
    ELSE IF t - JSONparse(st).savedAt > PERSIST_TTL_MS
         THEN [value |-> Null, store |-> NoData]
         ELSE [value |-> JSONparse(st), store |-> st]

\* The value returned and the store left behind
loadPersisted(st, mode, t) ==
    IF mode = "unavailable" THEN [value |-> Null, store |-> st]
    ELSE IF st.tag = "absent" THEN [value |-> Null, store |-> st]
    ELSE IF st.tag = "garbage" THEN [value |-> Null, store |-> st]
    ELSE IF st.tag = "badshape" THEN [value |-> Null, store |-> st]
    ELSE IF t - JSONparse(st).savedAt > PERSIST_TTL_MS
         THEN [value |-> Null, store |-> NoData]
         ELSE [value |-> JSONparse(st), store |-> st]

\* A clearPersisted that removes nothing
clearPersistedMissing(st, mode) == st

clearPersisted(st, mode) == IF mode # "unavailable" THEN NoData ELSE st

----------------------------------------------------------------------------
\* Rendering

renderSuggestions(items, index) ==
    [lis |-> [i \in 1..Len(items) |->
                [text |-> items[i].title,
                 href |-> IF items[i].url = Undefined THEN "#" ELSE items[i].url,
                 selected |-> (i - 1 = index)]],
     expanded |-> Len(items) > 0,
     activedescendant |-> IF index >= 0 /\ index < Len(items) THEN index ELSE -1]

renderStatus(s) ==
    IF s.kind = "loading" THEN <<"Loading...">>
    ELSE IF s.kind = "error" THEN <<"Error: ", s.error>>
    ELSE <<>>

----------------------------------------------------------------------------
\* The states the switchMap projection emits for a settled term

idleState(term) == Idle(term, <<>>)

loadingState(term) == Loading(term, <<>>)

doneState(term, data) == Done(term, toSuggestions(data))

errorMessage(e) == IF e.isError THEN e.message ELSE e.text

errorState(term, e) == Failed(term, <<>>, errorMessage(e))

\* The subscriber dropping the snapshot only when the term is empty
persistOnEmitClearsOnEmpty(s, st, mode, t) ==
    IF s.kind = "done" /\ Len(s.items) > 0
    THEN savePersisted(PersistedSuggestions(s.term, s.items, t), st, mode)
    ELSE IF s.kind = "idle" /\ s.term = EmptyStr
    THEN clearPersisted(st, mode)
    ELSE st

\* The subscriber persisting every done state, empty or not
persistOnEmitAnyDone(s, st, mode, t) ==
    IF s.kind = "done"
    THEN savePersisted(PersistedSuggestions(s.term, s.items, t), st, mode)
    ELSE IF s.kind = "idle" /\ Len(s.term) < minLength
    THEN clearPersisted(st, mode)
    ELSE st

\* The store after the state$ subscriber has handled emission s
persistOnEmit(s, st, mode, t) ==
    IF s.kind = "done" /\ Len(s.items) > 0
    THEN savePersisted(PersistedSuggestions(s.term, s.items, t), st, mode)
    ELSE IF s.kind = "idle" /\ Len(s.term) < minLength
    THEN clearPersisted(st, mode)
    ELSE st

\* state$ subscriber: cache, reset the cursor, render, persist
Emit(s, st) ==
    /\ lastState' = s
    /\ activeIndex' = -1
    /\ statusText' = renderStatus(s)
    /\ listDom' = renderSuggestions(s.items, -1)
    /\ store' = persistOnEmit(s, st, storeMode, now)

----------------------------------------------------------------------------
\* The operators of the term$ / state$ pipeline

\* map(() => opts.input.value.trim())
mapInput(v) == trim(v)

\* A debounce that emits without waiting for the quiet period
debounceDueAtOnce(t, last) == TRUE

\* debounceTime(debounceMs): the timer task emits once the source has been quiet
debounceDue(t, last) == t >= last + debounceMs

\* The pipeline without distinctUntilChanged
distinctMissing(has, key, v) == TRUE

\* distinctUntilChanged(): pass a value unless it equals the last one passed
distinctUntilChanged(has, key, v) == ~has \/ key # v

\* mergeMap in place of switchMap: earlier inner subscriptions stay subscribed
mergeMapKeep(reqs) == reqs

\* switchMap: a new outer value unsubscribes the inner subscription in progress
switchMapCancel(reqs) ==
    [i \in 1..Len(reqs) |->
        IF reqs[i].sub = "live" THEN [reqs[i] EXCEPT !.sub = "cancelled"] ELSE reqs[i]]

\* searchWikipedia(term, limit): the request handed to ajax.getJSON
searchWikipedia(term, lim) ==
    [term |-> term, limit |-> lim, sub |-> "live", outcome |-> "pending"]

\* The projection without the minLength branch
projectAlwaysSearches(reqs, term) ==
    Append(switchMapCancel(reqs), searchWikipedia(term, limit))

\* The projection of switchMap: which inner subscriptions exist after term settles
project(reqs, term) ==
    IF Len(term) < minLength
    THEN switchMapCancel(reqs)
    ELSE Append(switchMapCancel(reqs), searchWikipedia(term, limit))

\* The first state the inner observable emits for term
firstState(term) ==
    IF Len(term) < minLength THEN idleState(term) ELSE loadingState(term)

\* The failure reaching the outer pipeline, which it terminates
catchErrorMissing(status) == "errored"

\* catchError inside the inner pipe: the outer subscription survives a failure
catchError(status) == status

\* An inner subscription that hands nothing on
deliversNever(r) == FALSE

\* Every outcome delivered, whether or not its inner subscription is current
deliversStale(r) == TRUE

\* An inner observable delivers to state$ only while switchMap is subscribed to it
delivers(r) == r.sub = "live"

----------------------------------------------------------------------------
\* Initial state: the page is loaded, the widget is not yet bound

CatItems ==
    <<Suggestion(CatTitle, "d1", "u1"), Suggestion(CategoryTitle, "d2", "u2")>>

SnapshotAges == { TenMinutes, PERSIST_TTL_MS, PERSIST_TTL_MS + 1 }

InitialStores ==
    { NoData, Garbage, BadShape,
      JSONstringify(PersistedSuggestions(CatTerm, <<>>, StartNow - TenMinutes)) }
    \cup { JSONstringify(PersistedSuggestions(CatTerm, CatItems, StartNow - age)) :
             age \in SnapshotAges }

EmptyDom == [lis |-> <<>>, expanded |-> FALSE, activedescendant |-> -1]

Init ==
    /\ phase = "unbound"
    /\ subStatus = "none"
    /\ now = StartNow
    /\ ticks = 0
    /\ nInputs = 0
    /\ storeMode \in {"ok", "quota", "unavailable"}
    /\ store \in (IF storeMode = "unavailable" THEN {NoData} ELSE InitialStores)
    /\ inputValue = EmptyStr
    /\ focused = FALSE
    /\ activeTask = FALSE
    /\ lastValue = EmptyStr
    /\ lastTime = 0
    /\ hasKey = FALSE
    /\ currentKey = EmptyStr
    /\ requests = <<>>
    /\ lastState = Idle(EmptyStr, <<>>)
    /\ activeIndex = -1
    /\ statusText = <<>>
    /\ listDom = EmptyDom
    /\ opened = Undefined
    /\ nSettled = 0
    /\ nDropped = 0
    /\ bootStore = NoData
    /\ lastRaw = [value |-> EmptyStr, at |-> 0]
    /\ previousItems = <<>>
    /\ nReloads = 0

----------------------------------------------------------------------------
\* Actions

\* A start that ignores what was restored
initialStateIdle(restored) == Idle(EmptyStr, <<>>)

\* The state the widget starts in, given what loadPersisted returned
initialStateOf(restored) ==
    IF restored # Null
    THEN Done(restored.term, restored.items)
    ELSE Idle(EmptyStr, <<>>)

\* bindWikipediaAutosuggest: restore, build the pipeline, subscribe
Bind ==
    /\ phase = "unbound"
    /\ LET loaded == loadPersisted(store, storeMode, now)
           restored == loaded.value
           initialState == initialStateOf(restored)
       IN  /\ inputValue' = IF restored # Null THEN restored.term ELSE inputValue
           /\ Emit(initialState, loaded.store)
    /\ bootStore' = store
    /\ phase' = "bound"
    /\ subStatus' = "open"
    /\ opened' = Undefined
    /\ UNCHANGED <<now, ticks, nInputs, storeMode, focused, activeTask, lastValue,
                   lastTime, hasKey, currentKey, requests, nSettled, nDropped,
                   lastRaw, previousItems,
                   nReloads>>

\* The user focuses the input field
Focus ==
    /\ phase # "unbound"
    /\ ~focused
    /\ focused' = TRUE
    /\ opened' = Undefined
    /\ UNCHANGED <<phase, subStatus, now, ticks, nInputs, storeMode, store, inputValue,
                   activeTask, lastValue, lastTime, hasKey, currentKey, requests,
                   lastState, activeIndex, statusText, listDom, nSettled,
                   nDropped, bootStore, lastRaw, previousItems,
                   nReloads>>

\* An "input" event: the user edits the field to v
Input(v) ==
    /\ phase # "unbound"
    /\ focused
    /\ nInputs < MaxInputs
    /\ v # inputValue
    /\ inputValue' = v
    /\ nInputs' = nInputs + 1
    /\ lastRaw' = [value |-> v, at |-> now]
    /\ IF subStatus = "open"
       THEN /\ lastValue' = mapInput(v)
            /\ lastTime' = now
            /\ activeTask' = TRUE
       ELSE UNCHANGED <<lastValue, lastTime, activeTask>>
    /\ opened' = Undefined
    /\ UNCHANGED <<phase, subStatus, now, ticks, storeMode, store, focused, hasKey,
                   currentKey, requests, lastState, activeIndex, statusText, listDom,
                   nSettled, nDropped, bootStore, previousItems,
                   nReloads>>

\* The clock advances
Tick ==
    /\ ticks < MaxTicks
    /\ ticks' = ticks + 1
    /\ now' = now + (debounceMs \div 2)
    /\ opened' = Undefined
    /\ UNCHANGED <<phase, subStatus, nInputs, storeMode, store, inputValue, focused,
                   activeTask, lastValue, lastTime, hasKey, currentKey, requests,
                   lastState, activeIndex, statusText, listDom, nSettled,
                   nDropped, bootStore, lastRaw, previousItems,
                   nReloads>>

\* The debounce timer runs after the quiet period: term$ emits unless repeated,
\* switchMap switches to the new term's inner observable
DebounceFire ==
    /\ subStatus = "open"
    /\ activeTask
    /\ debounceDue(now, lastTime)
    /\ activeTask' = FALSE
    /\ IF distinctUntilChanged(hasKey, currentKey, lastValue)
       THEN /\ hasKey' = TRUE
            /\ currentKey' = lastValue
            /\ nSettled' = nSettled + 1
            /\ previousItems' = lastState.items
            /\ requests' = project(requests, lastValue)
            /\ Emit(firstState(lastValue), store)
            /\ UNCHANGED nDropped
       ELSE /\ nDropped' = nDropped + 1
            /\ UNCHANGED <<hasKey, currentKey, nSettled, previousItems, requests,
                           lastState, activeIndex, statusText, listDom, store>>
    /\ opened' = Undefined
    /\ UNCHANGED <<phase, subStatus, now, ticks, nInputs, storeMode, inputValue, focused,
                   lastValue, lastTime, bootStore, lastRaw,
                   nReloads>>

\* Request i completes with data: map to done, or nothing if unsubscribed
Answer(i, data) ==
    /\ i \in 1..Len(requests)
    /\ requests[i].outcome = "pending"
    /\ IF delivers(requests[i])
       THEN /\ requests' = [requests EXCEPT ![i].outcome = "ok", ![i].sub = "completed"]
            /\ Emit(doneState(requests[i].term, data), store)
       ELSE /\ requests' = [requests EXCEPT ![i].outcome = "discarded"]
            /\ UNCHANGED <<lastState, activeIndex, statusText, listDom, store>>
    /\ opened' = Undefined
    /\ UNCHANGED <<phase, subStatus, now, ticks, nInputs, storeMode, inputValue, focused,
                   activeTask, lastValue, lastTime, hasKey, currentKey, nSettled,
                   nDropped, bootStore, lastRaw, previousItems,
                   nReloads>>

\* The provider answers request i with data
Success(i, data) ==
    /\ i \in 1..Len(requests)
    /\ data \in Responses(requests[i].term)
    /\ Answer(i, data)

\* Request i fails with e
Failure(i, e) ==
    /\ i \in 1..Len(requests)
    /\ requests[i].outcome = "pending"
    /\ e \in Failures
    /\ IF delivers(requests[i])
       THEN /\ requests' = [requests EXCEPT ![i].outcome = "failed", ![i].sub = "completed"]
            /\ Emit(errorState(requests[i].term, e), store)
            /\ subStatus' = catchError(subStatus)
       ELSE /\ requests' = [requests EXCEPT ![i].outcome = "discarded"]
            /\ UNCHANGED <<lastState, activeIndex, statusText, listDom, store, subStatus>>
    /\ opened' = Undefined
    /\ UNCHANGED <<phase, now, ticks, nInputs, storeMode, inputValue, focused,
                   activeTask, lastValue, lastTime, hasKey, currentKey, nSettled,
                   nDropped, bootStore, lastRaw, previousItems,
                   nReloads>>

\* applyActiveIndex: move the cursor and re-render the cached state's items
applyActiveIndex(index) ==
    /\ activeIndex' = index
    /\ listDom' = renderSuggestions(lastState.items, index)

\* Moving down with no clamp at the last item
moveDownUnclamped(index, n) == index + 1

moveDown(index, n) == Min2(index + 1, n - 1)

moveUp(index) == Max2(index - 1, -1)

\* keydown Escape
KeyEscape ==
    /\ phase = "bound"
    /\ focused
    /\ applyActiveIndex(-1)
    /\ focused' = FALSE
    /\ opened' = Undefined
    /\ UNCHANGED <<phase, subStatus, now, ticks, nInputs, storeMode, store, inputValue,
                   activeTask, lastValue, lastTime, hasKey, currentKey, requests,
                   lastState, statusText, nSettled, nDropped, bootStore, lastRaw,
                   previousItems,
                   nReloads>>

\* keydown ArrowDown
KeyArrowDown ==
    /\ phase = "bound"
    /\ focused
    /\ applyActiveIndex(moveDown(activeIndex, Len(lastState.items)))
    /\ opened' = Undefined
    /\ UNCHANGED <<phase, subStatus, now, ticks, nInputs, storeMode, store, inputValue,
                   focused, activeTask, lastValue, lastTime, hasKey, currentKey,
                   requests, lastState, statusText, nSettled, nDropped,
                   bootStore, lastRaw, previousItems,
                   nReloads>>

\* keydown ArrowUp
KeyArrowUp ==
    /\ phase = "bound"
    /\ focused
    /\ applyActiveIndex(moveUp(activeIndex))
    /\ opened' = Undefined
    /\ UNCHANGED <<phase, subStatus, now, ticks, nInputs, storeMode, store, inputValue,
                   focused, activeTask, lastValue, lastTime, hasKey, currentKey,
                   requests, lastState, statusText, nSettled, nDropped,
                   bootStore, lastRaw, previousItems,
                   nReloads>>

\* The Enter branch is taken only with the cursor on an item
enterSelects(index, items) == index >= 0 /\ index < Len(items)

\* Opening whatever the url field holds
truthyAlways(url) == TRUE

truthy(url) == url # Undefined /\ url # ""

\* keydown Enter
KeyEnter ==
    /\ phase = "bound"
    /\ focused
    /\ LET items == lastState.items
       IN  IF enterSelects(activeIndex, items)
           THEN LET selected == items[activeIndex + 1]
                IN  /\ opened' = IF truthy(selected.url)
                                 THEN selected.url
                                 ELSE Undefined
                    /\ inputValue' = selected.title
                    /\ store' = savePersisted(
                                  PersistedSuggestions(selected.title, items, now),
                                  store, storeMode)
           ELSE /\ opened' = Undefined
                /\ UNCHANGED <<inputValue, store>>
    /\ UNCHANGED <<phase, subStatus, now, ticks, nInputs, storeMode, focused, activeTask,
                   lastValue, lastTime, hasKey, currentKey, requests, lastState,
                   activeIndex, statusText, listDom, nSettled, nDropped, bootStore,
                   lastRaw, previousItems,
                   nReloads>>

\* The click handler persists only when a title was clicked and items are cached
clickPersists(title, items) == title # EmptyStr /\ Len(items) > 0

\* The earlier draft's items: scraped from the rendered anchors
clickItemsFromDom(s, dom) ==
    [i \in 1..Len(dom.lis) |-> [title |-> dom.lis[i].text, url |-> dom.lis[i].href]]

\* The items the click handler persists: those of the cached state
clickItems(s, dom) == s.items

\* The first draft's click policy: fill the input, clear the list and the status
ClickClearsList(j) ==
    /\ phase = "bound"
    /\ j \in 1..Len(listDom.lis)
    /\ inputValue' = listDom.lis[j].text
    /\ listDom' = renderSuggestions(<<>>, -1)
    /\ statusText' = renderStatus(Idle(listDom.lis[j].text, <<>>))
    /\ opened' = Undefined
    /\ UNCHANGED <<phase, subStatus, now, ticks, nInputs, storeMode, store, focused,
                   activeTask, lastValue, lastTime, hasKey, currentKey, requests,
                   lastState, activeIndex, nSettled, nDropped, bootStore, lastRaw,
                   previousItems, nReloads>>

\* click on the j-th rendered anchor
Click(j) ==
    /\ phase = "bound"
    /\ j \in 1..Len(listDom.lis)
    /\ LET title == listDom.lis[j].text
       IN  /\ inputValue' = IF title # EmptyStr THEN title ELSE inputValue
           /\ store' = IF clickPersists(title, lastState.items)
                       THEN savePersisted(
                              PersistedSuggestions(title, clickItems(lastState, listDom), now),
                              store, storeMode)
                       ELSE store
    /\ opened' = Undefined
    /\ UNCHANGED <<phase, subStatus, now, ticks, nInputs, storeMode, focused, activeTask,
                   lastValue, lastTime, hasKey, currentKey, requests, lastState,
                   activeIndex, statusText, listDom, nSettled, nDropped,
                   bootStore, lastRaw, previousItems,
                   nReloads>>

\* An unsubscribe() that drops the key and click handlers but not the state$
\* subscription
UnsubscribeKeepsPipeline ==
    /\ phase = "bound"
    /\ phase' = "disposed"
    /\ opened' = Undefined
    /\ UNCHANGED <<subStatus, activeTask, requests, now, ticks, nInputs, storeMode,
                   store, inputValue, focused, lastValue, lastTime, hasKey, currentKey,
                   lastState, activeIndex, statusText, listDom, nSettled, nDropped,
                   bootStore, lastRaw, previousItems, nReloads>>

\* unsubscribe(): refCount drops to zero, so the whole pipeline is torn down
Unsubscribe ==
    /\ phase = "bound"
    /\ phase' = "disposed"
    /\ subStatus' = "closed"
    /\ activeTask' = FALSE
    /\ requests' = switchMapCancel(requests)
    /\ opened' = Undefined
    /\ UNCHANGED <<now, ticks, nInputs, storeMode, store, inputValue, focused, lastValue,
                   lastTime, hasKey, currentKey, lastState, activeIndex, statusText,
                   listDom, nSettled, nDropped, bootStore, lastRaw, previousItems,
                   nReloads>>

Next ==
    \/ Bind
    \/ Focus
    \/ \E v \in RawInputs : Input(v)
    \/ Tick
    \/ DebounceFire
    \/ \E i \in 1..Len(requests) : \E data \in Responses(requests[i].term) :
          Success(i, data)
    \/ \E i \in 1..Len(requests) : \E e \in Failures : Failure(i, e)
    \/ KeyEscape
    \/ KeyArrowDown
    \/ KeyArrowUp
    \/ KeyEnter
    \/ \E j \in 1..Len(listDom.lis) : Click(j)
    \/ Unsubscribe

Spec == Init /\ [][Next]_vars

\* The page is reloaded in the same tab: the old document and all it held are
\* gone, sessionStorage stays, and the page script binds the widget again
Restart ==
    /\ phase # "unbound"
    /\ nReloads < MaxReloads
    /\ nReloads' = nReloads + 1
    /\ LET loaded == loadPersisted(store, storeMode, now)
           restored == loaded.value
       IN  /\ inputValue' = IF restored # Null THEN restored.term ELSE EmptyStr
           /\ Emit(initialStateOf(restored), loaded.store)
    /\ bootStore' = store
    /\ phase' = "bound"
    /\ subStatus' = "open"
    /\ focused' = FALSE
    /\ activeTask' = FALSE
    /\ lastValue' = EmptyStr
    /\ lastTime' = 0
    /\ hasKey' = FALSE
    /\ currentKey' = EmptyStr
    /\ requests' = <<>>
    /\ nSettled' = 0
    /\ nDropped' = 0
    /\ lastRaw' = [value |-> EmptyStr, at |-> 0]
    /\ previousItems' = <<>>
    /\ opened' = Undefined
    /\ UNCHANGED <<now, ticks, nInputs, storeMode>>

\* All sequences over S of length at most n
SeqsUpTo(S, n) == UNION { [1..k -> S] : k \in 0..n }

\* Every WikiOpenSearch tuple with arrays of at most MaxArr entries; the echo
\* is the searched term for one of the two terms in flight and not for the other
WideResponses ==
    { <<echo, titles, descriptions, urls>> :
        echo \in {DogTerm},
        titles \in SeqsUpTo({CatTitle, CategoryTitle}, MaxArr),
        descriptions \in SeqsUpTo({"d1", "d2"}, MaxArr),
        urls \in SeqsUpTo({"u1", ""}, MaxArr) }

\* The widget right after a typed term has settled: its search is in flight
InitConvert ==
    \E t \in {CatTerm, DogTerm} :
        /\ phase = "bound"
        /\ subStatus = "open"
        /\ now = StartNow + debounceMs
        /\ ticks = 2
        /\ nInputs = 1
        /\ storeMode = "ok"
        /\ store = NoData
        /\ inputValue = t
        /\ focused = TRUE
        /\ activeTask = FALSE
        /\ lastValue = t
        /\ lastTime = StartNow
        /\ hasKey = TRUE
        /\ currentKey = t
        /\ requests = <<searchWikipedia(t, limit)>>
        /\ lastState = loadingState(t)
        /\ activeIndex = -1
        /\ statusText = renderStatus(loadingState(t))
        /\ listDom = EmptyDom
        /\ opened = Undefined
        /\ nSettled = 1
        /\ nDropped = 0
        /\ bootStore = NoData
        /\ lastRaw = [value |-> t, at |-> StartNow]
        /\ previousItems = <<>>
        /\ nReloads = 0

\* The search in flight completes with any tuple the provider could send
Convert == \E data \in WideResponses : Answer(1, data)

\* The conversion of provider responses, from a search in flight
SpecConvert == InitConvert /\ [][Convert]_vars

\* A tab whose storage works and holds nothing yet
InitReload == Init /\ storeMode = "ok" /\ store = NoData

NextReload == Next \/ Restart

\* The widget with page reloads
SpecReload == InitReload /\ [][NextReload]_vars

\* The provider answers request i, with a response or a failure
Respond(i) ==
    /\ i \in 1..Len(requests)
    /\ \/ \E data \in Responses(requests[i].term) : Success(i, data)
       \/ \E e \in Failures : Failure(i, e)

\* The widget with a provider that answers every request in the end
SpecLive ==
    InitReload /\ [][Next]_vars /\ \A i \in 1..MaxInputs : WF_vars(Respond(i))

\* Twenty-five minutes: a pause shorter than the retention window, two of
\* which are longer
LongWait == 25 * 60 * 1000

\* The page is left alone for a long while, with no timer or search pending
Wait ==
    /\ now - StartNow < MaxWaits * LongWait
    /\ ~activeTask
    /\ \A i \in 1..Len(requests) : requests[i].outcome # "pending"
    /\ now' = now + LongWait
    /\ opened' = Undefined
    /\ UNCHANGED <<phase, subStatus, ticks, nInputs, storeMode, store, inputValue,
                   focused, activeTask, lastValue, lastTime, hasKey, currentKey,
                   requests, lastState, activeIndex, statusText, listDom, nSettled,
                   nDropped, bootStore, lastRaw, previousItems, nReloads>>

\* A tab whose storage works and holds nothing or a snapshot ten minutes old
InitRetention ==
    /\ Init
    /\ storeMode = "ok"
    /\ store \in { NoData,
                    JSONstringify(
                      PersistedSuggestions(CatTerm, CatItems, StartNow - TenMinutes)) }

\* The user types and searches in the first session, before the first long
\* pause and the first reload
FirstSession == nReloads = 0 /\ now - StartNow < LongWait

NextRetention ==
    \/ Bind
    \/ Focus
    \/ FirstSession /\ \E v \in RawInputs : Input(v)
    \/ FirstSession /\ Tick
    \/ DebounceFire
    \/ \E i \in 1..Len(requests) : Respond(i)
    \/ KeyEscape
    \/ KeyArrowDown
    \/ KeyArrowUp
    \/ KeyEnter
    \/ \E j \in 1..Len(listDom.lis) : Click(j)
    \/ Unsubscribe
    \/ Restart
    \/ Wait

\* The widget across page reloads and long pauses
SpecRetention == InitRetention /\ [][NextRetention]_vars

----------------------------------------------------------------------------
\* Properties

ThirtyMinutes == 30 * 60 * 1000

LiveRequests(reqs) == { i \in 1..Len(reqs) : reqs[i].sub = "live" }

TermSettles == nSettled' = nSettled + 1

\* C1: once a term has settled, the current state always carries the latest
\* settled term; the outcome of a search for an earlier term, whenever it
\* arrives, never becomes the current state.
C1_LatestTermOwnsState == hasKey => lastState.term = currentKey

\* C1 witness: the outcome of the first search arrived and was discarded, the
\* second search answered, and the state is done for the second term.
C1_Witness ==
    /\ Len(requests) = 2
    /\ requests[1].term # requests[2].term
    /\ requests[1].outcome = "discarded"
    /\ requests[2].outcome = "ok"
    /\ lastState.kind = "done"
    /\ lastState.term = requests[2].term

\* C2: a settled term whose trimmed length is below minLength yields
\* idle(t, []) and no search is ever issued for such a term.
C2_ShortTermIdleNoCall ==
    [][ /\ (TermSettles /\ Len(trim(lastRaw.value)) < minLength)
            => /\ lastState' = Idle(trim(lastRaw.value), <<>>)
               /\ Len(requests') = Len(requests)
        /\ \A i \in 1..Len(requests') : Len(requests'[i].term) >= minLength ]_vars

\* C2 witness: "ca" has settled, the state is idle("ca", []) and no search exists.
C2_Witness ==
    /\ nSettled = 1
    /\ lastState = Idle(Ca, <<>>)
    /\ requests = <<>>

\* C3: a term settles, and a search is issued, only when the input has been
\* quiet for the whole debounce interval since the last raw event, and then
\* only for the (trimmed) value of that last event, one search at most.
C3_OnlyLastValueAfterQuiet ==
    [][ (nSettled' # nSettled \/ Len(requests') # Len(requests))
          => /\ now >= lastRaw.at + debounceMs
             /\ TermSettles
             /\ currentKey' = trim(lastRaw.value)
             /\ Len(requests') <= Len(requests) + 1
             /\ Len(requests') = Len(requests) + 1
                  => requests'[Len(requests')].term = trim(lastRaw.value) ]_vars

\* C3 witness: two raw events, the timer ran once, and the only search is for
\* the value of the second event.
C3_Witness ==
    /\ nInputs = 2
    /\ nSettled = 1
    /\ nDropped = 0
    /\ ~activeTask
    /\ lastRaw.value = DogTerm
    /\ Len(requests) = 1
    /\ requests[1].term = DogTerm

\* C4: every settled term is trimmed and differs from the term settled before
\* it; a value that settles equal to the previous term changes neither the
\* state, the rendering, the store nor the searches.
C4_NoRepeatedTerm ==
    [][ /\ TermSettles
            => /\ trim(currentKey') = currentKey'
               /\ hasKey => currentKey' # currentKey
        /\ (/\ activeTask /\ ~activeTask' /\ subStatus' = "open"
            /\ hasKey /\ trim(lastRaw.value) = currentKey)
            => UNCHANGED <<nSettled, requests, lastState, activeIndex, statusText,
                           listDom, store>> ]_vars

\* C4 witness: "cat" settled, then " cat " was typed and dropped after its
\* quiet period.
C4_Witness ==
    /\ nSettled = 1
    /\ nDropped = 1
    /\ currentKey = CatTerm
    /\ lastRaw.value = <<Space>> \o CatTerm \o <<Space>>

\* C5: while loading, the state carries the items that were current just
\* before the term settled.
C5_LoadingKeepsPreviousItems ==
    lastState.kind = "loading" => lastState.items = previousItems

\* C6: an error state carries the items that were current before the search
\* was issued, and the failure's text.
C6_ErrorKeepsPreviousItems ==
    lastState.kind = "error"
      => /\ lastState.items = previousItems
         /\ lastState.error \in { errorMessage(e) : e \in Failures }

\* C7: a provider failure never ends the state sequence: while the widget is
\* bound the subscription stays open, and after a failure a newly settled term
\* still yields loading (or idle when short) and its outcome done or error.
C7_FailureKeepsStreamLive ==
    [][ /\ phase' = "bound" => subStatus' = "open"
        /\ ((\E i \in 1..Len(requests) : requests[i].outcome = "failed") /\ TermSettles)
            => /\ lastState'.term = currentKey'
               /\ lastState'.kind = (IF Len(currentKey') < minLength
                                     THEN "idle" ELSE "loading")
        /\ \A j \in 1..Len(requests) :
              (requests[j].outcome = "pending" /\ requests'[j].sub = "completed")
                => /\ lastState'.kind \in {"done", "error"}
                   /\ lastState'.term = requests[j].term ]_vars

\* C7 witness: one search failed, a later one answered, and the state is done
\* for the later term.
C7_Witness ==
    \E i, j \in 1..Len(requests) :
        /\ i < j
        /\ requests[i].outcome = "failed"
        /\ requests[j].outcome = "ok"
        /\ lastState.kind = "done"
        /\ lastState.term = requests[j].term

\* C8 as stated: an in-flight search is invalidated exactly when a newer term
\* settles, and by no other event; at most one search is live.
C8_InvalidatedOnlyBySettling ==
    [][ /\ \A i \in LiveRequests(requests) :
              requests'[i].sub = "cancelled" <=> TermSettles
        /\ Cardinality(LiveRequests(requests')) <= 1 ]_vars

\* C8 amended: an in-flight search is invalidated exactly when a newer term
\* settles or the widget is disposed; at most one search is live.
C8_InvalidatedBySettlingOrDisposal ==
    [][ /\ \A i \in LiveRequests(requests) :
              requests'[i].sub = "cancelled" <=> (TermSettles \/ phase' = "disposed")
        /\ Cardinality(LiveRequests(requests')) <= 1 ]_vars

\* C8 witness: a term too short to search has settled and invalidated the
\* search in flight.
C8_Witness ==
    /\ phase = "bound"
    /\ Len(requests) = 1
    /\ requests[1].sub = "cancelled"
    /\ Len(currentKey) < minLength
    /\ lastState.kind = "idle"

\* C9: the snapshot is written only while the current state is done with at
\* least one item, and the items written are that state's items.
C9_SnapshotOnlyFromDone ==
    [][ (store' # store /\ store'.tag = "json")
          => /\ lastState'.kind = "done"
             /\ Len(lastState'.items) > 0
             /\ store'.items = lastState'.items ]_vars

\* C9 witness: Enter on the second item has just written the snapshot under
\* that item's title.
C9_Witness ==
    /\ opened = "u2"
    /\ lastState.kind = "done"
    /\ store.tag = "json"
    /\ store.term = CategoryTitle
    /\ store.items = lastState.items

\* C10: at startup a snapshot older than 30 minutes is not used (the initial
\* state is idle("", []) and the record is deleted); a snapshot within 30
\* minutes becomes the initial state.
C10_StaleSnapshotNotRestored ==
    [][ (phase = "unbound" /\ phase' = "bound" /\ store.tag = "json")
          => IF now - store.savedAt > ThirtyMinutes
             THEN lastState' = Idle(EmptyStr, <<>>) /\ store' = NoData
             ELSE lastState' = Done(store.term, store.items) ]_vars

\* C10 witness: the widget was bound over a snapshot older than 30 minutes,
\* started idle and left the store empty.
C10_Witness ==
    /\ phase = "bound"
    /\ nInputs = 0
    /\ bootStore.tag = "json"
    /\ now - bootStore.savedAt > ThirtyMinutes
    /\ bootStore.items # <<>>
    /\ lastState = Idle(EmptyStr, <<>>)
    /\ store = NoData

\* A page reload step
Reloads == nReloads' = nReloads + 1

\* The store holds the snapshot of state s, written at some time
HoldsSnapshotOf(st, s) ==
    /\ st.tag = "json"
    /\ st = JSONstringify(PersistedSuggestions(s.term, s.items, st.savedAt))

\* C11: round trip. When the current state is done(t, items) with at least
\* one item, the store still holds the snapshot of that state and the page is
\* reloaded within the retention window, the first state of the new binding
\* is done(t, items) again (same term, same items, same order), the list is
\* rendered from it, and the input field holds t.
C11_RestartRestoresDone ==
    [][ ( /\ Reloads
          /\ lastState.kind = "done"
          /\ Len(lastState.items) >= 1
          /\ HoldsSnapshotOf(store, lastState)
          /\ now - store.savedAt <= PERSIST_TTL_MS )
        => /\ lastState' = Done(lastState.term, lastState.items)
           /\ inputValue' = lastState.term
           /\ listDom' = renderSuggestions(lastState.items, -1)
           /\ nSettled' = 0 ]_vars

\* C11 witness: a search of this run answered with two items, the page was
\* reloaded, and the new binding starts in done for that term with the items
\* and the input field seeded, before any term has settled.
C11_Witness ==
    /\ nReloads = 1
    /\ nSettled = 0
    /\ bootStore.tag = "json"
    /\ lastState = Done(bootStore.term, bootStore.items)
    /\ lastState.term = CatTerm
    /\ Len(lastState.items) = 2
    /\ inputValue = CatTerm
    /\ Len(listDom.lis) = 2

\* The binding's first emission
FirstEmission == phase' = "bound" /\ (phase = "unbound" \/ Reloads)

\* C12: whenever a state idle(t, items) with Len(t) < minLength is emitted (the
\* first state of a binding or the state of a settled short term, the cleared
\* input included) no snapshot is left in the store, and a page reload that
\* finds no snapshot starts in idle("", []) and leaves the store empty.
C12_ShortIdleDeletesSnapshot ==
    [][ /\ ( /\ TermSettles \/ FirstEmission
             /\ lastState'.kind = "idle"
             /\ Len(lastState'.term) < minLength )
           => store' = NoData
        /\ (Reloads /\ store = NoData)
           => lastState' = Idle(EmptyStr, <<>>) /\ store' = NoData ]_vars

\* C12 witness: a done state with items was current and persisted, the input
\* was cleared, idle("", []) was emitted and the store holds nothing.
C12_Witness ==
    /\ storeMode = "ok"
    /\ nSettled = 2
    /\ Len(previousItems) > 0
    /\ lastRaw.value = EmptyStr
    /\ lastState = Idle(EmptyStr, <<>>)
    /\ store = NoData

\* A search outcome is delivered to the subscriber
OutcomeDelivered ==
    \E i \in 1..Min2(Len(requests), Len(requests')) :
        requests[i].sub = "live" /\ requests'[i].sub = "completed"

\* The subscriber receives a state
Emission == FirstEmission \/ TermSettles \/ OutcomeDelivered

\* C13: after any interleaving of emissions and key presses the cursor is an
\* integer in [-1, Len(items) - 1]; it is -1 right after every emission;
\* ArrowDown sets it to min(cursor + 1, Len(items) - 1), ArrowUp to
\* max(cursor - 1, -1), Escape to -1, and Enter leaves it alone.
C13_CursorInRange ==
    [][ /\ activeIndex' \in -1..(Len(lastState'.items) - 1)
        /\ Emission => activeIndex' = -1
        /\ KeyArrowDown =>
              activeIndex' = Min2(activeIndex + 1, Len(lastState.items) - 1)
        /\ KeyArrowUp => activeIndex' = Max2(activeIndex - 1, -1)
        /\ KeyEscape => activeIndex' = -1
        /\ KeyEnter => activeIndex' = activeIndex ]_vars

\* C13 witness: a search answered with two items and the cursor was moved
\* down to the last of them.
C13_Witness ==
    /\ nSettled = 1
    /\ lastState.kind = "done"
    /\ Len(lastState.items) = 2
    /\ activeIndex = 1
    /\ listDom.activedescendant = 1

\* What the rest of the widget holds besides input text, store and opened page
WidgetRest == <<lastState, activeIndex, listDom, statusText, requests, activeTask,
                hasKey, currentKey, nSettled, nDropped, subStatus, phase>>

\* C14: Enter with the cursor on item c opens items[c].url in a new context
\* when the url is present, sets the input text to items[c].title and, the
\* store accepting writes, persists the snapshot (items[c].title, all items of
\* the current state, now); it issues no search and changes nothing else.
\* Enter with the cursor at -1 has no effect.
C14_ActivateSelectsItem ==
    [][ KeyEnter =>
          IF activeIndex >= 0
          THEN LET item == lastState.items[activeIndex + 1]
               IN  /\ opened' = IF item.url # Undefined /\ item.url # ""
                                 THEN item.url ELSE Undefined
                   /\ inputValue' = item.title
                   /\ storeMode = "ok" =>
                         store' = JSONstringify(
                           PersistedSuggestions(item.title, lastState.items, now))
                   /\ storeMode # "ok" => store' = store
                   /\ UNCHANGED WidgetRest
          ELSE /\ opened' = Undefined
               /\ UNCHANGED <<inputValue, store>>
               /\ UNCHANGED WidgetRest ]_vars

\* C14 witness: from done with two items, ArrowDown, ArrowDown, Enter: the
\* cursor is on index 1, the second item's page was opened, the input holds
\* the second title and the snapshot holds both items under that title.
C14_Witness ==
    /\ lastState.kind = "done"
    /\ Len(lastState.items) = 2
    /\ activeIndex = 1
    /\ opened = lastState.items[2].url
    /\ inputValue = lastState.items[2].title
    /\ store = JSONstringify(
                 PersistedSuggestions(lastState.items[2].title, lastState.items, now))

\* C15: a click on the j-th rendered suggestion sets the input text to the
\* clicked title and, the store accepting writes, persists a snapshot whose
\* term is the clicked title and whose items are exactly the cached current
\* state's items, with the titles, descriptions and urls the provider
\* delivered, not values read back from the rendered list.
C15_ClickPersistsCachedItems ==
    [][ \A j \in 1..Len(listDom.lis) :
          Click(j) =>
            LET title == lastState.items[j].title
            IN  /\ inputValue' = title
                /\ storeMode = "ok" =>
                      /\ store' = JSONstringify(
                                     PersistedSuggestions(title, lastState.items, now))
                      /\ \A k \in 1..Len(store'.items) :
                            /\ store'.items[k].title = lastState.items[k].title
                            /\ store'.items[k].description
                                  = lastState.items[k].description
                            /\ store'.items[k].url = lastState.items[k].url
                /\ storeMode # "ok" => store' = store ]_vars

\* C15 witness: with the input not focused, the first of two suggestions
\* delivered by the provider was clicked: the input holds its title and the
\* snapshot holds both cached items, descriptions included, under that title.
C15_Witness ==
    /\ phase = "bound"
    /\ nSettled = 0
    /\ ~focused
    /\ lastState.kind = "done"
    /\ Len(lastState.items) = 2
    /\ inputValue = lastState.items[1].title
    /\ inputValue # lastState.term
    /\ store = JSONstringify(
                 PersistedSuggestions(lastState.items[1].title, lastState.items, now))
    /\ store.items[1].description # Undefined

\* C16: a click on a rendered suggestion leaves the rendered list, the status
\* label, the current state and the cursor as they were, and issues no search:
\* no request is started and no debounce timer is armed.
C16_ClickLeavesWidgetAlone ==
    [][ \A j \in 1..Len(listDom.lis) :
          Click(j) =>
            /\ UNCHANGED <<listDom, statusText, lastState, activeIndex>>
            /\ UNCHANGED <<requests, activeTask, lastValue, lastTime, hasKey,
                           currentKey, nSettled, nDropped>> ]_vars

\* C16 witness: a search answered with two items, the cursor was moved to the
\* first, and the second suggestion was clicked: the list is still rendered
\* with the cursor on the first item and the state is still done.
C16_Witness ==
    /\ nSettled = 1
    /\ lastState.kind = "done"
    /\ Len(lastState.items) = 2
    /\ Len(listDom.lis) = 2
    /\ listDom.lis[1].selected
    /\ activeIndex = 0
    /\ inputValue = lastState.items[2].title
    /\ store.tag = "json"
    /\ store.term = lastState.items[2].title

\* C17: after unsubscribe() no state is emitted and no side effect occurs,
\* whatever happens later: a debounce timer elapsing, a search completing or
\* failing, a keystroke, a key press or a click changes neither the current
\* state, the cursor, the rendered list and status nor the persisted
\* snapshot; no page is opened, no search is started, no timer is armed, and
\* the input text changes only by the user's own typing.
C17_NothingAfterDisposal ==
    [][ phase = "disposed" =>
          /\ UNCHANGED <<lastState, activeIndex, listDom, statusText, store, opened>>
          /\ UNCHANGED <<phase, subStatus, activeTask, hasKey, currentKey,
                         nSettled, nDropped>>
          /\ Len(requests') = Len(requests)
          /\ \A i \in 1..Len(requests) : requests'[i].sub = requests[i].sub
          /\ inputValue' # inputValue =>
                /\ nInputs' = nInputs + 1
                /\ lastRaw'.value = inputValue'
                /\ lastValue' = lastValue ]_vars

\* C17 witness: the widget was disposed while a search was in flight; after
\* that the response arrived and was dropped and the user typed another term
\* that never reached the pipeline; the state is still the loading state.
C17_Witness ==
    /\ phase = "disposed"
    /\ lastState.kind = "loading"
    /\ Len(requests) = 1
    /\ requests[1].sub = "cancelled"
    /\ requests[1].outcome = "discarded"
    /\ nInputs = 2
    /\ inputValue = DogTerm
    /\ lastValue = CatTerm
    /\ statusText = <<"Loading...">>

\* The store cannot be read, or what it holds is no snapshot
Unreadable(st, mode) == mode = "unavailable" \/ st.tag \in {"absent", "garbage", "badshape"}

\* C18: store failures are contained. Whether the store works, is over quota
\* or throws on every call, each step gives the state machine the same
\* in-memory result, stated here with no reference to the store: a settled
\* term emits its first state, a delivered outcome emits done or error for the
\* request's term, nothing else changes the state, every emission resets the
\* cursor and is rendered, key presses move the cursor over the cached items,
\* Enter and click set the input text, and the state$ subscription stays open. A
\* failing operation leaves the store as it was, and a failing or corrupt
\* read at start is treated as no data: the first state is idle("", []).
C18_StoreFailuresContained ==
    [][ /\ (phase = "unbound" /\ phase' = "bound" /\ Unreadable(store, storeMode))
           => /\ lastState' = Idle(EmptyStr, <<>>)
              /\ inputValue' = inputValue
        /\ TermSettles => lastState' = firstState(currentKey')
        /\ \A i \in 1..Len(requests) :
              (requests[i].sub = "live" /\ requests'[i].sub = "completed")
              => lastState' \in
                   { doneState(requests[i].term, data) :
                       data \in Responses(requests[i].term) }
                   \cup { errorState(requests[i].term, e) : e \in Failures }
        /\ (~Emission /\ activeIndex' # activeIndex)
           => activeIndex' \in { -1, moveUp(activeIndex),
                                 moveDown(activeIndex, Len(lastState.items)) }
        /\ ~Emission => lastState' = lastState
        /\ Emission => /\ activeIndex' = -1
                       /\ listDom' = renderSuggestions(lastState'.items, -1)
                       /\ statusText' = renderStatus(lastState')
        /\ (KeyEnter /\ activeIndex >= 0)
           => inputValue' = lastState.items[activeIndex + 1].title
        /\ \A j \in 1..Len(listDom.lis) :
              Click(j) => inputValue' = lastState.items[j].title
        /\ phase' = "bound" => subStatus' = "open"
        /\ storeMode' = storeMode
        /\ storeMode = "unavailable" => store' = store
        /\ storeMode = "quota" => store' \in {store, NoData} ]_vars

\* C18 witness: with the store over quota and nothing restored, a search
\* answered with two items that could not be persisted, and the state machine
\* went on: the state is done, the list is rendered, the cursor was moved to
\* the last item, and the store still holds nothing.
C18_Witness ==
    /\ storeMode = "quota"
    /\ bootStore = NoData
    /\ nSettled = 1
    /\ lastState.kind = "done"
    /\ Len(lastState.items) = 2
    /\ Len(listDom.lis) = 2
    /\ activeIndex = 1
    /\ store = NoData
    /\ subStatus = "open"

\* C19: a successful response <<echo, titles, descriptions, urls>> for term T
\* becomes done(T, items) with exactly min(|titles|, |descriptions|, |urls|)
\* items, the k-th being (titles[k], descriptions[k], urls[k]) in the
\* provider's order, whether or not the echo is T.
C19_ZipsToShortest ==
    [][ \A data \in WideResponses :
          Answer(1, data) =>
            LET n == Min2(Len(data[2]), Min2(Len(data[3]), Len(data[4])))
            IN  /\ lastState'.kind = "done"
                /\ lastState'.term = requests[1].term
                /\ Len(lastState'.items) = n
                /\ \A k \in 1..n :
                      /\ lastState'.items[k].title = data[2][k]
                      /\ lastState'.items[k].description = data[3][k]
                      /\ lastState'.items[k].url = data[4][k]
                      /\ DOMAIN lastState'.items[k] = {"title", "description", "url"} ]_vars

\* C19 witness: a response was converted into a single item that pairs the
\* second title with the first description and an empty url.
C19_Witness ==
    /\ requests[1].outcome = "ok"
    /\ lastState.kind = "done"
    /\ lastState.items = <<Suggestion(CategoryTitle, "d1", "")>>

\* The terms long enough to be searched
LongTerms == { trim(v) : v \in { w \in RawInputs : Len(trim(w)) >= minLength } }

\* C20: the state does not stay in loading once the provider answers. When
\* the n-th settled term t is long enough and its loading state is current,
\* then, the provider answering every request in the end, the state becomes
\* done(t, ...) or error(t, ...) unless a newer term settles or the widget is
\* disposed first; and a done or error state changes only when the next term
\* settles.
C20_LoadingEnds ==
    /\ \A t \in LongTerms : \A n \in 1..MaxInputs :
          (phase = "bound" /\ nSettled = n /\ lastState = loadingState(t))
          ~> \/ /\ nSettled = n
                /\ lastState.kind \in {"done", "error"}
                /\ lastState.term = t
             \/ nSettled > n
             \/ phase = "disposed"
    /\ [][ (lastState.kind \in {"done", "error"} /\ lastState' # lastState)
            => TermSettles ]_vars

\* C20 witness: the only settled term was searched, the clock ran out with
\* the search in flight, and the provider's failure ended the loading state.
C20_Witness ==
    /\ phase = "bound"
    /\ nSettled = 1
    /\ ticks = MaxTicks
    /\ lastState.kind = "error"
    /\ lastState.term = DogTerm
    /\ requests[1].outcome = "failed"
    /\ statusText = <<"Error: ", "503">>

\* C21: with minLength > 0 and a store whose operations succeed, in every
\* state after the first emission an idle current state means the store holds
\* no snapshot; and while the state is idle, loading or error, which carry no
\* items, neither Enter nor a click writes a snapshot.
C21_IdleMeansNoSnapshot ==
    /\ []( (minLength > 0 /\ storeMode = "ok" /\ phase # "unbound"
             /\ lastState.kind = "idle")
           => store = NoData )
    /\ [][ ( /\ storeMode = "ok"
             /\ lastState.kind \in {"idle", "loading", "error"}
             /\ KeyEnter \/ \E j \in 1..Len(listDom.lis) : Click(j) )
           => /\ Len(lastState.items) = 0
              /\ store' = store
              /\ inputValue' = inputValue ]_vars

\* C21 witness: a restored list of two items was current and persisted, the
\* user shortened the term to two characters, idle was emitted for it and the
\* store holds nothing, with the input focused so that Enter can be pressed.
C21_Witness ==
    /\ storeMode = "ok"
    /\ bootStore.tag = "json"
    /\ Len(previousItems) = 2
    /\ lastState = Idle(Ca, <<>>)
    /\ focused
    /\ store = NoData

\* C22: with a working store, a start (first bind or page reload) that finds
\* a snapshot with at least one item no older than the retention window
\* restores it and writes it again with savedAt set to the time of that
\* start, so the window restarts at every reload; a start that finds a
\* snapshot whose last write lies more than the window back drops it and
\* begins in idle("", []). The age that counts is the time since the last
\* write or load, not the time since the search that produced the items.
C22_RestoreRestartsWindow ==
    [][ (FirstEmission /\ storeMode = "ok" /\ store.tag = "json")
        => /\ (Len(store.items) >= 1 /\ now - store.savedAt <= PERSIST_TTL_MS)
              => /\ lastState' = Done(store.term, store.items)
                 /\ store' = JSONstringify(
                                PersistedSuggestions(store.term, store.items, now))
                 /\ store'.savedAt = now
           /\ now - store.savedAt > PERSIST_TTL_MS
              => /\ lastState' = Idle(EmptyStr, <<>>)
                 /\ store' = NoData ]_vars

\* C22 witness: a snapshot written ten minutes before the first load was
\* restored and re-written at that load; twenty-five minutes later, with
\* nothing typed, the page was reloaded: thirty-five minutes after the
\* original write the items are restored again and stamped with the time of
\* the reload.
C22_Witness ==
    /\ nInputs = 0
    /\ nReloads = 1
    /\ now - StartNow = LongWait
    /\ now - (StartNow - TenMinutes) > PERSIST_TTL_MS
    /\ bootStore = JSONstringify(PersistedSuggestions(CatTerm, CatItems, StartNow))
    /\ lastState = Done(CatTerm, CatItems)
    /\ store = JSONstringify(PersistedSuggestions(CatTerm, CatItems, now))


====
